---- MODULE Spec2Model ----
(***************************************************************************)
(* Model of the workflow-use recorder content script                       *)
(* (extension/src/entrypoints/content.ts): the recorder lifecycle, the     *)
(* scroll smoothing done in the replay engine's emit callback, the four    *)
(* capture handlers and the two locator functions.                         *)
(***************************************************************************)
EXTENDS Integers, Sequences, FiniteSets, TLC

VARIABLES
    stopRecording,      \* TRUE iff the module variable holds a stop handle
    isRecordingActive,  \* the module's active flag
    scrollTimeout,      \* <<id>> of the debounce timer the module remembers, or None
    lastScrollY,        \* <<y>>, the last tracked scroll y (raw, in half pixels), or None
    lastDirection,      \* "up", "down" or NULL
    timers,             \* pending setTimeout callbacks: [id, x, y] (captured payload)
    engines,            \* number of replay-engine instances currently recording
    emitBound,          \* TRUE once an emit callback has been handed to an engine
    listeners,          \* the roots (document, shadow roots) holding the capture handlers
    observing,          \* TRUE once a MutationObserver watches the document
    responsePending,    \* REQUEST_RECORDING_STATUS sent, response not yet delivered
    sent,               \* messages passed to chrome.runtime.sendMessage, in order
    lastOp,             \* the handler that ran last: its name, its argument and
                        \* the flags and scroll tracking it found on entry
    dom,                \* the page: a sequence of nodes, dom[n] the node numbered n
    computed,           \* the locator last derived from dom, or NoLocator
    typed,              \* the value property of the page's password field
    sent2,              \* sent, in a second run that differs in the secret input only
    typed2              \* typed, in the second run

recVars == <<stopRecording, isRecordingActive, engines, emitBound, listeners, observing>>
lifeVars == <<recVars, responsePending>>
scrollVars == <<scrollTimeout, lastScrollY, lastDirection, timers>>
domVars == <<dom, computed>>
runVars == <<typed, sent2, typed2>>
vars == <<lifeVars, scrollVars, sent, lastOp, domVars, runVars>>

NULL == "null"
\* A nullable number is None or Some(n).
None == <<>>
Some(v) == <<v>>

\* ------------------------------------------------------------------ bounds
MaxY == 2          \* raw scroll y ranges over 0..MaxY half pixels
MaxX == 1          \* raw scroll x ranges over 0..MaxX half pixels
MaxSent == 2       \* messages recorded per run
MaxNodes == 3      \* nodes the page adds to document > html > (head, body)
MaxAttrs == 2      \* attributes the page sets on one element
MaxTyped == 2      \* characters typed into the password field
MaxKeyLog == 1     \* messages in the log when a key press is explored

DEBOUNCE_MS == 500

\* Raw coordinates are counted in half pixels, so 3 stands for 1.5 px.
RawYs == 0..MaxY
RawXs == 0..MaxX

\* Math.round on a coordinate given in half pixels: floor(v + 0.5), in pixels.
MathRound(h) == (h + 1) \div 2

\* An event the replay engine hands to emit.
ScrollEvents == [kind : {"scroll"}, x : RawXs, y : RawYs]
OtherEvents == {[kind |-> "other"]}
EngineEvents == ScrollEvents \cup OtherEvents

RrwebMsg(payload) == [type |-> "RRWEB_EVENT", payload |-> payload]
ScrollPayload(px, py) == [kind |-> "scroll", x |-> px, y |-> py]

\* What a handler finds on entry, kept with lastOp.
Pre == [active |-> isRecordingActive, handle |-> stopRecording,
        dir |-> lastDirection, timer |-> scrollTimeout # None]
\* the argument of an operation that takes none
NoArg == [none |-> TRUE]
Op(name, arg) == [op |-> name, arg |-> arg, pre |-> Pre]

\* chrome.runtime.sendMessage; a step that reads no secret input sends the
\* same in both runs
Send(msg) == sent' = Append(sent, msg) /\ sent2' = Append(sent2, msg)
NoSend == UNCHANGED <<sent, sent2>>
CanSend == Len(sent) < MaxSent

\* ------------------------------------------------------------------ timers
TimerIds == {t.id : t \in timers}
\* setTimeout returns an id no live timer and no remembered handle uses.
NewTimerId ==
    CHOOSE i \in 1..(Cardinality(timers) + 2) :
        /\ i \notin TimerIds
        /\ Some(i) # scrollTimeout
        /\ \A j \in 1..(i - 1) : j \in TimerIds \/ Some(j) = scrollTimeout
\* clearTimeout(handle), handle being Some(id)
ClearTimeout(handle) == {t \in timers : Some(t.id) # handle}

\* ------------------------------------------------------------------ strings
\* A string is a sequence of one-character strings.
UpperLetters == <<"A","B","C","D","E","F","G","H","I","J","K","L","M",
                  "N","O","P","Q","R","S","T","U","V","W","X","Y","Z">>
LowerLetters == <<"a","b","c","d","e","f","g","h","i","j","k","l","m",
                  "n","o","p","q","r","s","t","u","v","w","x","y","z">>
Digits == <<"0","1","2","3","4","5","6","7","8","9">>
Range(seq) == {seq[i] : i \in 1..Len(seq)}
IsLetter(c) == c \in Range(UpperLetters) \cup Range(LowerLetters)
IsDigit(c) == c \in Range(Digits)
\* the characters the regular expression class \s matches
IsWhitespace(c) == c \in {" ", "\t", "\n", "\r", "\f"}

ToLowerChar(c) ==
    IF \E i \in 1..Len(UpperLetters) : UpperLetters[i] = c
    THEN LowerLetters[CHOOSE i \in 1..Len(UpperLetters) : UpperLetters[i] = c]
    ELSE c
ToUpperChar(c) ==
    IF \E i \in 1..Len(LowerLetters) : LowerLetters[i] = c
    THEN UpperLetters[CHOOSE i \in 1..Len(LowerLetters) : LowerLetters[i] = c]
    ELSE c
\* String.prototype.toLowerCase / toUpperCase
ToLowerCase(str) == [i \in 1..Len(str) |-> ToLowerChar(str[i])]
ToUpperCase(str) == [i \in 1..Len(str) |-> ToUpperChar(str[i])]

\* the decimal digits of a number, as template literals print it
RECURSIVE NumberToString(_)
NumberToString(n) ==
    IF n < 10 THEN <<Digits[n + 1]>>
    ELSE NumberToString(n \div 10) \o <<Digits[(n % 10) + 1]>>

\* ------------------------------------------------------------------ DOM
NoNode == 0     \* null / undefined where a node is expected

\* Node kinds; nodeType 1 is ELEMENT_NODE.
IsElement(d, n) == n # NoNode /\ d[n].kind = "element"

ElementNode(tag, attrs, parent) ==
    [kind |-> "element", tagName |-> tag, attributes |-> attrs,
     parentNode |-> parent, children |-> <<>>, shadowRoot |-> NoNode, host |-> NoNode]
ShadowRootNode(hostNode) ==
    [kind |-> "shadowRoot", tagName |-> <<>>, attributes |-> <<>>,
     parentNode |-> NoNode, children |-> <<>>, shadowRoot |-> NoNode, host |-> hostNode]
DocumentNode ==
    [kind |-> "document", tagName |-> <<>>, attributes |-> <<>>,
     parentNode |-> NoNode, children |-> <<>>, shadowRoot |-> NoNode, host |-> NoNode]

TagHTML == <<"H","T","M","L">>
TagHEAD == <<"H","E","A","D">>
TagBODY == <<"B","O","D","Y">>
TagDIV == <<"D","I","V">>
TagSPAN == <<"S","P","A","N">>

DocumentId == 1
HtmlId == 2
HeadId == 3
BodyId == 4
\* document > html > (head, body); bodyAttrs are the attributes of body
BaseDocument(bodyAttrs) ==
    << [DocumentNode EXCEPT !.children = <<HtmlId>>],
       [ElementNode(TagHTML, <<>>, DocumentId) EXCEPT !.children = <<HeadId, BodyId>>],
       ElementNode(TagHEAD, <<>>, HtmlId),
       ElementNode(TagBODY, bodyAttrs, HtmlId) >>

Elements(d) == {n \in 1..Len(d) : d[n].kind = "element"}
ShadowRoots(d) == {n \in 1..Len(d) : d[n].kind = "shadowRoot"}

\* Element.getAttribute: the value, or NULL when the attribute is absent
GetAttribute(d, n, name) ==
    IF \E i \in 1..Len(d[n].attributes) : d[n].attributes[i].name = name
    THEN d[n].attributes[CHOOSE i \in 1..Len(d[n].attributes) :
                                        d[n].attributes[i].name = name].value
    ELSE NULL
\* Element.id reflects the id attribute, "" when there is none
ElementId(d, n) ==
    IF GetAttribute(d, n, <<"i","d">>) = NULL THEN <<>> ELSE GetAttribute(d, n, <<"i","d">>)
\* Node.parentElement: the parent when it is an element, else null
ParentElement(d, n) ==
    IF IsElement(d, d[n].parentNode) THEN d[n].parentNode ELSE NoNode
\* document.body
DocumentBody(d) == BodyId

\* the page appends a child element / attaches an open shadow root
AppendChild(d, parent, tag, attrs) ==
    LET n == Len(d) + 1
    IN  Append([d EXCEPT ![parent].children = Append(@, n)], ElementNode(tag, attrs, parent))
AttachShadowTo(d, hostNode) ==
    LET n == Len(d) + 1
    IN  Append([d EXCEPT ![hostNode].shadowRoot = n], ShadowRootNode(hostNode))

\* The elements of the tree below root, not crossing into shadow trees:
\* root.querySelectorAll("*")
RECURSIVE DescendantElements(_, _)
DescendantElements(d, root) ==
    UNION {{d[root].children[i]} \cup DescendantElements(d, d[root].children[i]) :
              i \in 1..Len(d[root].children)}

\* attachListenersToNode(node): the roots that end up holding the handlers;
\* addEventListener ignores a listener the target already holds
RECURSIVE AttachListenersToNode(_, _)
AttachListenersToNode(d, node) ==
    {node} \cup UNION {AttachListenersToNode(d, d[el].shadowRoot) :
                          el \in {e \in DescendantElements(d, node) : d[e].shadowRoot # NoNode}}

\* ------------------------------------------------------------------ locators
\* A locator function returns a string or throws (a TypeError).
Ok(str) == [throws |-> FALSE, value |-> str]
Throw == [throws |-> TRUE, value |-> <<>>]

RECURSIVE getXPath(_, _)
RECURSIVE XPathSiblingLoop(_, _, _, _, _)
RECURSIVE XPathSiblingLoop_ChildIndex(_, _, _, _, _)
RECURSIVE XPathSiblingLoop_NoCount(_, _, _, _, _)
\* the sibling loop never counting a sibling
XPathSiblingLoop_NoCount(d, element, siblings, i, ix) ==
    IF i > Len(siblings)
    THEN Ok(ToLowerCase(d[element].tagName))
    ELSE IF siblings[i] = element
         THEN LET parent == getXPath(d, ParentElement(d, element))
              IN  IF parent.throws THEN Throw
                  ELSE Ok(parent.value \o <<"/">> \o ToLowerCase(d[element].tagName)
                          \o <<"[">> \o NumberToString(ix + 1) \o <<"]">>)
         ELSE XPathSiblingLoop_NoCount(d, element, siblings, i + 1, ix)

\* the sibling loop counting every preceding element, whatever its tag
XPathSiblingLoop_ChildIndex(d, element, siblings, i, ix) ==
    IF i > Len(siblings)
    THEN Ok(ToLowerCase(d[element].tagName))
    ELSE IF siblings[i] = element
         THEN LET parent == getXPath(d, ParentElement(d, element))
              IN  IF parent.throws THEN Throw
                  ELSE Ok(parent.value \o <<"/">> \o ToLowerCase(d[element].tagName)
                          \o <<"[">> \o NumberToString(ix + 1) \o <<"]">>)
         ELSE XPathSiblingLoop_ChildIndex(d, element, siblings, i + 1,
                  IF d[siblings[i]].kind = "element" THEN ix + 1 ELSE ix)

\* the for loop of getXPath over siblings, at index i with ix same-tag
\* element siblings seen so far
XPathSiblingLoop(d, element, siblings, i, ix) ==
    IF i > Len(siblings)
    THEN Ok(ToLowerCase(d[element].tagName))
    ELSE IF siblings[i] = element
         THEN LET parent == getXPath(d, ParentElement(d, element))
              IN  IF parent.throws THEN Throw
                  ELSE Ok(parent.value \o <<"/">> \o ToLowerCase(d[element].tagName)
                          \o <<"[">> \o NumberToString(ix + 1) \o <<"]">>)
         ELSE XPathSiblingLoop(d, element, siblings, i + 1,
                  IF d[siblings[i]].kind = "element"
                     /\ d[siblings[i]].tagName = d[element].tagName
                  THEN ix + 1 ELSE ix)

\* getXPath(element); element is NoNode when the caller passes null
getXPath(d, element) ==
    IF element = NoNode THEN Throw
    ELSE IF ElementId(d, element) # <<>>
    THEN Ok(<<"i","d","(","\"">> \o ElementId(d, element) \o <<"\"",")">>)
    ELSE IF element = DocumentBody(d)
    THEN Ok(ToLowerCase(d[element].tagName))
    ELSE IF d[element].parentNode # NoNode
    THEN XPathSiblingLoop(d, element, d[d[element].parentNode].children, 1, 0)
    ELSE Ok(ToLowerCase(d[element].tagName))

\* ------------------------------------------------------------------ selector
SAFE_ATTRIBUTES ==
    {<<"i","d">>,
     <<"n","a","m","e">>,
     <<"t","y","p","e">>,
     <<"p","l","a","c","e","h","o","l","d","e","r">>,
     <<"a","r","i","a","-","l","a","b","e","l">>,
     <<"a","r","i","a","-","l","a","b","e","l","l","e","d","b","y">>,
     <<"a","r","i","a","-","d","e","s","c","r","i","b","e","d","b","y">>,
     <<"r","o","l","e">>,
     <<"f","o","r">>,
     <<"a","u","t","o","c","o","m","p","l","e","t","e">>,
     <<"r","e","q","u","i","r","e","d">>,
     <<"r","e","a","d","o","n","l","y">>,
     <<"a","l","t">>,
     <<"t","i","t","l","e">>,
     <<"s","r","c">>,
     <<"h","r","e","f">>,
     <<"t","a","r","g","e","t">>,
     <<"d","a","t","a","-","i","d">>,
     <<"d","a","t","a","-","q","a">>,
     <<"d","a","t","a","-","c","y">>,
     <<"d","a","t","a","-","t","e","s","t","i","d">>}

\* String.prototype.trim() === "": only whitespace
TrimIsEmpty(str) == \A i \in 1..Len(str) : IsWhitespace(str[i])

\* the tokens of a string split on whitespace, in order
RECURSIVE SplitOnWhitespace(_, _, _)
SplitOnWhitespace(str, i, token) ==
    IF i > Len(str)
    THEN (IF token = <<>> THEN <<>> ELSE <<token>>)
    ELSE IF IsWhitespace(str[i])
         THEN (IF token = <<>> THEN <<>> ELSE <<token>>) \o SplitOnWhitespace(str, i + 1, <<>>)
         ELSE SplitOnWhitespace(str, i + 1, Append(token, str[i]))
\* an ordered set keeps the first occurrence of each token
RECURSIVE RemoveDuplicates(_)
RemoveDuplicates(seq) ==
    IF seq = <<>> THEN <<>>
    ELSE LET init == RemoveDuplicates(SubSeq(seq, 1, Len(seq) - 1))
             last == seq[Len(seq)]
         IN  IF last \in Range(init) THEN init ELSE Append(init, last)
\* Element.classList: the unique tokens of the class attribute
ClassList(d, n) ==
    IF GetAttribute(d, n, <<"c","l","a","s","s">>) = NULL THEN <<>>
    ELSE RemoveDuplicates(SplitOnWhitespace(GetAttribute(d, n, <<"c","l","a","s","s">>), 1, <<>>))

\* /^[a-zA-Z_][a-zA-Z0-9_-]*$/
ValidClassPattern(str) ==
    /\ Len(str) >= 1
    /\ (IsLetter(str[1]) \/ str[1] = "_")
    /\ \A i \in 2..Len(str) : IsLetter(str[i]) \/ IsDigit(str[i]) \/ str[i] \in {"_", "-"}

\* CSS.escape, the CSSOM "serialize an identifier" steps, one character
HexOfControl(c) ==
    CASE c = "\t" -> <<"9">>
      [] c = "\n" -> <<"a">>
      [] c = "\f" -> <<"c">>
      [] c = "\r" -> <<"d">>
EscapeAsCodePoint(c) ==
    IF IsDigit(c) THEN <<"\\", "3", c, " ">>
    ELSE <<"\\">> \o HexOfControl(c) \o <<" ">>
CssEscapeChar(str, i) ==
    LET c == str[i]
    IN  IF c \in {"\t", "\n", "\f", "\r"} THEN EscapeAsCodePoint(c)
        ELSE IF i = 1 /\ IsDigit(c) THEN EscapeAsCodePoint(c)
        ELSE IF i = 2 /\ IsDigit(c) /\ str[1] = "-" THEN EscapeAsCodePoint(c)
        ELSE IF i = 1 /\ c = "-" /\ Len(str) = 1 THEN <<"\\", c>>
        ELSE IF IsLetter(c) \/ IsDigit(c) \/ c \in {"-", "_"} THEN <<c>>
        ELSE <<"\\", c>>
RECURSIVE CssEscapeFrom(_, _)
CssEscapeFrom(str, i) ==
    IF i > Len(str) THEN <<>> ELSE CssEscapeChar(str, i) \o CssEscapeFrom(str, i + 1)
CssEscape(str) == CssEscapeFrom(str, 1)

\* the replacement string of attrValue.replace(/"/g, '\"'): the JavaScript
\* literal '\"' is the one character "
QuoteReplacement == <<"\"">>
RECURSIVE ReplaceQuotes(_, _)
\* str.replace(/"/g, replacement)
ReplaceQuotes(str, replacement) ==
    IF str = <<>> THEN <<>>
    ELSE (IF Head(str) = "\"" THEN replacement ELSE <<Head(str)>>)
         \o ReplaceQuotes(Tail(str), replacement)

\* the grave accent, named because a string of the module cannot hold it
Backtick == "grave-accent"
\* /['"<>`\s]/.test(str)
NeedsSubstringMatch(str) ==
    \E i \in 1..Len(str) : str[i] \in {"'", "\"", "<", ">", Backtick} \/ IsWhitespace(str[i])

\* the class fragments appended by classList.forEach
RECURSIVE ClassFragments(_, _)
ClassFragments(classes, i) ==
    IF i > Len(classes) THEN <<>>
    ELSE (IF classes[i] # <<>> /\ ValidClassPattern(classes[i])
          THEN <<".">> \o CssEscape(classes[i]) ELSE <<>>)
         \o ClassFragments(classes, i + 1)

\* the fragment one iteration of the attribute loop appends
AttributeFragment(attr) ==
    IF attr.name = <<"c","l","a","s","s">> THEN <<>>
    ELSE IF TrimIsEmpty(attr.name) THEN <<>>
    ELSE IF attr.name \notin SAFE_ATTRIBUTES THEN <<>>
    ELSE LET safeAttribute == CssEscape(attr.name)
         IN  IF attr.value = <<>>
             THEN <<"[">> \o safeAttribute \o <<"]">>
             ELSE LET safeValue == ReplaceQuotes(attr.value, QuoteReplacement)
                  IN  IF NeedsSubstringMatch(attr.value)
                      THEN <<"[">> \o safeAttribute \o <<"*", "=", "\"">> \o safeValue \o <<"\"", "]">>
                      ELSE <<"[">> \o safeAttribute \o <<"=", "\"">> \o safeValue \o <<"\"", "]">>
RECURSIVE AttributeFragments(_, _)
AttributeFragments(attrs, i) ==
    IF i > Len(attrs) THEN <<>>
    ELSE AttributeFragment(attrs[i]) \o AttributeFragments(attrs, i + 1)

\* getEnhancedCSSSelector(element, xpath); the xpath argument is not used
getEnhancedCSSSelector(d, element) ==
    ToLowerCase(d[element].tagName)
        \o (IF Len(ClassList(d, element)) > 0 THEN ClassFragments(ClassList(d, element), 1) ELSE <<>>)
        \o AttributeFragments(d[element].attributes, 1)

NoLocator == [target |-> NoNode]

\* ------------------------------------------------------------------ lifecycle
\* startRecorder without its early return
StartRecorderBody_NoGuard ==
    /\ isRecordingActive' = TRUE
    /\ stopRecording' = TRUE
    /\ engines' = engines + 1
    /\ emitBound' = TRUE
    /\ listeners' = listeners \cup AttachListenersToNode(dom, DocumentId)
    /\ observing' = TRUE

\* startRecorder
StartRecorderBody ==
    IF stopRecording
    THEN UNCHANGED recVars
    ELSE /\ isRecordingActive' = TRUE
         /\ stopRecording' = TRUE
         /\ engines' = engines + 1
         /\ emitBound' = TRUE
         /\ listeners' = listeners \cup AttachListenersToNode(dom, DocumentId)
         /\ observing' = TRUE

\* stopRecorder
StopRecorderBody ==
    IF stopRecording
    THEN /\ engines' = engines - 1
         /\ stopRecording' = FALSE
         /\ isRecordingActive' = FALSE
         /\ UNCHANGED <<emitBound, listeners, observing>>
    ELSE UNCHANGED recVars

\* chrome.runtime.onMessage listener, message type SET_RECORDING_STATUS
SetRecordingStatus(shouldBeRecording) ==
    /\ IF shouldBeRecording /\ ~isRecordingActive
       THEN StartRecorderBody
       ELSE IF ~shouldBeRecording /\ isRecordingActive
            THEN StopRecorderBody
            ELSE UNCHANGED recVars
    /\ lastOp' = Op("SET_RECORDING_STATUS", [status |-> shouldBeRecording])
    /\ UNCHANGED <<responsePending, scrollVars, sent, sent2>>
    /\ UNCHANGED <<domVars, typed, typed2>>

\* callback of the REQUEST_RECORDING_STATUS message sent by main
StatusResponse(isRecordingEnabled) ==
    /\ responsePending
    /\ responsePending' = FALSE
    /\ IF isRecordingEnabled THEN StartRecorderBody ELSE StopRecorderBody
    /\ lastOp' = Op("statusResponse", [status |-> isRecordingEnabled])
    /\ UNCHANGED <<scrollVars, sent, sent2>>
    /\ UNCHANGED <<domVars, typed, typed2>>

\* window beforeunload listener
BeforeUnload ==
    /\ StopRecorderBody
    /\ lastOp' = Op("beforeunload", NoArg)
    /\ UNCHANGED <<responsePending, scrollVars, sent, sent2>>
    /\ UNCHANGED <<domVars, typed, typed2>>

\* ------------------------------------------------------------------ emit
\* currentDirection of the emit callback: null until a y has been tracked
CurrentDirection(y) ==
    IF lastScrollY # None
    THEN (IF y > lastScrollY[1] THEN "down" ELSE "up")
    ELSE NULL

\* the scroll branch with the clearTimeout before re-arming left out
EmitScroll_NoClear(x, y) ==
    LET rounded == ScrollPayload(MathRound(x), MathRound(y))
        currentDirection == CurrentDirection(y)
    IN  IF /\ lastDirection # NULL
           /\ currentDirection # NULL
           /\ currentDirection # lastDirection
        THEN /\ timers' = (IF scrollTimeout # None THEN ClearTimeout(scrollTimeout) ELSE timers)
             /\ scrollTimeout' = None
             /\ CanSend
             /\ Send(RrwebMsg(rounded))
             /\ lastDirection' = currentDirection
             /\ lastScrollY' = Some(y)
        ELSE /\ lastDirection' = currentDirection
             /\ lastScrollY' = Some(y)
             /\ LET id == NewTimerId
                IN  /\ timers' = timers \cup {[id |-> id, x |-> rounded.x, y |-> rounded.y]}
                    /\ scrollTimeout' = Some(id)
             /\ NoSend

\* the scroll branch with a reversal that leaves the pending timer armed
EmitScroll_ReversalKeepsTimer(x, y) ==
    LET rounded == ScrollPayload(MathRound(x), MathRound(y))
        currentDirection == CurrentDirection(y)
    IN  IF /\ lastDirection # NULL
           /\ currentDirection # NULL
           /\ currentDirection # lastDirection
        THEN /\ UNCHANGED <<timers, scrollTimeout>>
             /\ CanSend
             /\ Send(RrwebMsg(rounded))
             /\ lastDirection' = currentDirection
             /\ lastScrollY' = Some(y)
        ELSE /\ lastDirection' = currentDirection
             /\ lastScrollY' = Some(y)
             /\ LET kept == IF scrollTimeout # None THEN ClearTimeout(scrollTimeout) ELSE timers
                    id == NewTimerId
                IN  /\ timers' = kept \cup {[id |-> id, x |-> rounded.x, y |-> rounded.y]}
                    /\ scrollTimeout' = Some(id)
             /\ NoSend

\* the scroll branch re-arming no timer when it has canceled one
EmitScroll_LosesLast(x, y) ==
    LET rounded == ScrollPayload(MathRound(x), MathRound(y))
        currentDirection == CurrentDirection(y)
    IN  IF /\ lastDirection # NULL
           /\ currentDirection # NULL
           /\ currentDirection # lastDirection
        THEN /\ timers' = (IF scrollTimeout # None THEN ClearTimeout(scrollTimeout) ELSE timers)
             /\ scrollTimeout' = None
             /\ CanSend
             /\ Send(RrwebMsg(rounded))
             /\ lastDirection' = currentDirection
             /\ lastScrollY' = Some(y)
        ELSE /\ lastDirection' = currentDirection
             /\ lastScrollY' = Some(y)
             /\ IF scrollTimeout # None
                THEN /\ timers' = ClearTimeout(scrollTimeout)
                     /\ scrollTimeout' = None
                ELSE LET id == NewTimerId
                     IN  /\ timers' = timers \cup {[id |-> id, x |-> rounded.x, y |-> rounded.y]}
                         /\ scrollTimeout' = Some(id)
             /\ NoSend

\* the scroll branch of emit, for a scroll event with raw coordinates x, y
EmitScroll(x, y) ==
    LET rounded == ScrollPayload(MathRound(x), MathRound(y))
        currentDirection == CurrentDirection(y)
    IN  IF /\ lastDirection # NULL
           /\ currentDirection # NULL
           /\ currentDirection # lastDirection
        THEN /\ timers' = (IF scrollTimeout # None THEN ClearTimeout(scrollTimeout) ELSE timers)
             /\ scrollTimeout' = None
             /\ CanSend
             /\ Send(RrwebMsg(rounded))
             /\ lastDirection' = currentDirection
             /\ lastScrollY' = Some(y)
        ELSE /\ lastDirection' = currentDirection
             /\ lastScrollY' = Some(y)
             /\ LET kept == IF scrollTimeout # None THEN ClearTimeout(scrollTimeout) ELSE timers
                    id == NewTimerId
                IN  /\ timers' = kept \cup {[id |-> id, x |-> rounded.x, y |-> rounded.y]}
                    /\ scrollTimeout' = Some(id)
             /\ NoSend

\* the emit callback given to rrweb.record, called by the engine with one event
EngineEmit(event) ==
    /\ emitBound
    /\ IF ~isRecordingActive
       THEN UNCHANGED <<scrollVars, sent, sent2>>
       ELSE IF event.kind = "scroll"
            THEN EmitScroll(event.x, event.y)
            ELSE /\ CanSend
                 /\ Send(RrwebMsg(event))
                 /\ UNCHANGED scrollVars
    /\ lastOp' = Op("emit", event)
    /\ UNCHANGED lifeVars
    /\ UNCHANGED <<domVars, typed, typed2>>

\* the callback armed by setTimeout(..., DEBOUNCE_MS) in emit
TimerFire(t) ==
    /\ t \in timers
    /\ timers' = timers \ {t}
    /\ CanSend
    /\ Send(RrwebMsg(ScrollPayload(t.x, t.y)))
    /\ scrollTimeout' = None
    /\ lastDirection' = NULL
    /\ lastOp' = Op("timer", [id |-> t.id])
    /\ UNCHANGED <<lifeVars, lastScrollY>>
    /\ UNCHANGED <<domVars, typed, typed2>>

\* startRecorder and stopRecorder called on their own
StartRecorder ==
    /\ StartRecorderBody
    /\ lastOp' = Op("startRecorder", NoArg)
    /\ UNCHANGED <<responsePending, scrollVars, sent, sent2>>
    /\ UNCHANGED <<domVars, typed, typed2>>

StopRecorder ==
    /\ StopRecorderBody
    /\ lastOp' = Op("stopRecorder", NoArg)
    /\ UNCHANGED <<responsePending, scrollVars, sent, sent2>>
    /\ UNCHANGED <<domVars, typed, typed2>>

\* stopRecorder on a session whose engine emits one more event from inside
\* its stop handle: stopRecording() runs, and with it the emit callback,
\* before the handle and the active flag are cleared
StopRecorderEmitting(event) ==
    /\ stopRecording
    /\ IF ~isRecordingActive
       THEN UNCHANGED <<scrollVars, sent, sent2>>
       ELSE IF event.kind = "scroll"
            THEN EmitScroll(event.x, event.y)
            ELSE /\ CanSend
                 /\ Send(RrwebMsg(event))
                 /\ UNCHANGED scrollVars
    /\ engines' = engines - 1
    /\ stopRecording' = FALSE
    /\ isRecordingActive' = FALSE
    /\ lastOp' = Op("stopRecorder", event)
    /\ UNCHANGED <<emitBound, listeners, observing, responsePending>>
    /\ UNCHANGED <<domVars, typed, typed2>>

\* ------------------------------------------------------------------ page
Tags == {TagDIV, TagSPAN}
Ids == {<<>>, <<"a">>}
IdAttribute(id) == IF id = <<>> THEN <<>> ELSE <<[name |-> <<"i","d">>, value |-> id]>>

\* the page appends an element below body or inside a shadow root
AppendElement(parent, tag, id) ==
    /\ Len(dom) < BodyId + MaxNodes
    /\ parent \in BodyId..Len(dom)
    /\ dom' = AppendChild(dom, parent, tag, IdAttribute(id))
    /\ computed' = NoLocator
    /\ UNCHANGED <<lifeVars, scrollVars, sent, lastOp, runVars>>

\* the page attaches an open shadow root to an element
AttachShadow(hostNode) ==
    /\ Len(dom) < BodyId + MaxNodes
    /\ hostNode \in Elements(dom)
    /\ hostNode > BodyId
    /\ dom[hostNode].shadowRoot = NoNode
    /\ dom' = AttachShadowTo(dom, hostNode)
    /\ computed' = NoLocator
    /\ UNCHANGED <<lifeVars, scrollVars, sent, lastOp, runVars>>

\* Element.setAttribute(name, value) by the page
SetAttributeOf(d, n, name, value) ==
    IF GetAttribute(d, n, name) = NULL
    THEN [d EXCEPT ![n].attributes = Append(@, [name |-> name, value |-> value])]
    ELSE [d EXCEPT ![n].attributes =
             [i \in 1..Len(@) |-> IF @[i].name = name THEN [name |-> name, value |-> value]
                                  ELSE @[i]]]
SetAttribute(element, name, value) ==
    /\ element \in Elements(dom)
    /\ GetAttribute(dom, element, name) # NULL \/ Len(dom[element].attributes) < MaxAttrs
    /\ dom' = SetAttributeOf(dom, element, name, value)
    /\ computed' = NoLocator
    /\ UNCHANGED <<lifeVars, scrollVars, sent, lastOp, runVars>>

\* the ElementLocator of an element of the page: getXPath and
\* getEnhancedCSSSelector applied to it
Locate(element) ==
    /\ element \in Elements(dom)
    /\ computed' = [target |-> element, xpath |-> getXPath(dom, element),
                    cssSelector |-> getEnhancedCSSSelector(dom, element)]
    /\ UNCHANGED <<lifeVars, scrollVars, sent, lastOp, dom, runVars>>

\* ------------------------------------------------------------------ events
TagINPUT == <<"I","N","P","U","T">>
TagSELECT == <<"S","E","L","E","C","T">>
TagBUTTON == <<"B","U","T","T","O","N">>
TagTEXTAREA == <<"T","E","X","T","A","R","E","A">>
TagXPANEL == <<"X","-","P","A","N","E","L">>

\* the root of the tree n lives in: the document or a shadow root
RECURSIVE RootOf(_, _)
RootOf(d, n) == IF d[n].parentNode = NoNode THEN n ELSE RootOf(d, d[n].parentNode)
\* the roots on the path of an event dispatched at target; only a composed
\* event leaves the shadow tree of its target
RECURSIVE EventRoots(_, _, _)
EventRoots(d, target, composed) ==
    LET root == RootOf(d, target)
    IN  IF d[root].kind = "shadowRoot" /\ composed
        THEN {root} \cup EventRoots(d, d[root].host, composed)
        ELSE {root}
\* how many times a capture handler runs for one event: once per root on
\* the path that holds the handlers
Invocations(d, target, composed) ==
    Cardinality(EventRoots(d, target, composed) \cap listeners)

RECURSIVE Repeat(_, _)
Repeat(seq, n) == IF n = 0 THEN <<>> ELSE seq \o Repeat(seq, n - 1)

\* "value" in targetElement
HasValueProperty(d, n) ==
    d[n].tagName \in {TagINPUT, TagSELECT, TagTEXTAREA, TagBUTTON}
\* HTMLInputElement.type reflects the type attribute, "text" by default
ElementType(d, n) ==
    IF d[n].tagName = TagINPUT
    THEN (IF GetAttribute(d, n, <<"t","y","p","e">>) = NULL THEN <<"t","e","x","t">>
          ELSE ToLowerCase(GetAttribute(d, n, <<"t","y","p","e">>)))
    ELSE IF d[n].tagName = TagSELECT THEN <<"s","e","l","e","c","t","-","o","n","e">>
    ELSE IF d[n].tagName = TagBUTTON THEN <<"s","u","b","m","i","t">>
    ELSE NULL
\* the one option of the page's select element
SelectedValue == <<"o","1">>
SelectedText == <<"O","n","e">>
\* Node.textContent, trimmed and cut to 200 characters: the pages modelled
\* hold no text nodes
ElementText(d, n) == <<>>

MASK == <<"*","*","*","*","*","*","*","*">>

\* The payloads leave out timestamp, url and frameUrl.
CustomMsg(type, payload) == [type |-> type, payload |-> payload]

\* a try block without its catch clause
Escapes_NoCatch(thrown, inTry) == thrown

\* try { ... } catch (error) {}: an exception thrown in a handler leaves the
\* handler, and reaches the page, unless it is thrown inside the try block
Escapes(thrown, inTry) == thrown /\ ~inTry

\* Whether one invocation of a handler ends with an uncaught exception: each
\* handler calls getXPath, the one call that throws, inside its try block.
handleCustomClickThrows(d, targetElement) ==
    /\ isRecordingActive
    /\ targetElement # NoNode
    /\ Escapes(getXPath(d, targetElement).throws, TRUE)
handleInputThrows(d, targetElement) ==
    /\ isRecordingActive
    /\ targetElement # NoNode
    /\ HasValueProperty(d, targetElement)
    /\ Escapes(getXPath(d, targetElement).throws, TRUE)
handleSelectChangeThrows(d, targetElement) ==
    /\ isRecordingActive
    /\ targetElement # NoNode
    /\ d[targetElement].tagName = TagSELECT
    /\ Escapes(getXPath(d, targetElement).throws, TRUE)

\* handleCustomClick without its test of the active flag
handleCustomClick_NoGuard(d, targetElement) ==
    IF targetElement = NoNode THEN <<>>
    ELSE LET xpath == getXPath(d, targetElement)
         IN  IF xpath.throws THEN <<>>
             ELSE <<CustomMsg("CUSTOM_CLICK_EVENT",
                        [xpath |-> xpath.value,
                         cssSelector |-> getEnhancedCSSSelector(d, targetElement),
                         elementTag |-> d[targetElement].tagName,
                         elementText |-> ElementText(d, targetElement)])>>

\* handleCustomClick, for one invocation: the messages it sends
handleCustomClick(d, targetElement) ==
    IF ~isRecordingActive THEN <<>>
    ELSE IF targetElement = NoNode THEN <<>>
    ELSE LET xpath == getXPath(d, targetElement)
         IN  IF xpath.throws THEN <<>>
             ELSE <<CustomMsg("CUSTOM_CLICK_EVENT",
                        [xpath |-> xpath.value,
                         cssSelector |-> getEnhancedCSSSelector(d, targetElement),
                         elementTag |-> d[targetElement].tagName,
                         elementText |-> ElementText(d, targetElement)])>>

\* handleInput with its masking of password fields left out
handleInput_NoMask(d, targetElement, value) ==
    IF ~isRecordingActive THEN <<>>
    ELSE IF targetElement = NoNode \/ ~HasValueProperty(d, targetElement) THEN <<>>
    ELSE LET xpath == getXPath(d, targetElement)
         IN  IF xpath.throws THEN <<>>
             ELSE <<CustomMsg("CUSTOM_INPUT_EVENT",
                        [xpath |-> xpath.value,
                         cssSelector |-> getEnhancedCSSSelector(d, targetElement),
                         elementTag |-> d[targetElement].tagName,
                         value |-> value])>>

\* handleInput; value is targetElement.value
handleInput(d, targetElement, value) ==
    IF ~isRecordingActive THEN <<>>
    ELSE IF targetElement = NoNode \/ ~HasValueProperty(d, targetElement) THEN <<>>
    ELSE LET isPassword == ElementType(d, targetElement) = <<"p","a","s","s","w","o","r","d">>
             xpath == getXPath(d, targetElement)
         IN  IF xpath.throws THEN <<>>
             ELSE <<CustomMsg("CUSTOM_INPUT_EVENT",
                        [xpath |-> xpath.value,
                         cssSelector |-> getEnhancedCSSSelector(d, targetElement),
                         elementTag |-> d[targetElement].tagName,
                         value |-> IF isPassword THEN MASK ELSE value])>>

\* handleSelectChange
handleSelectChange(d, targetElement) ==
    IF ~isRecordingActive THEN <<>>
    ELSE IF targetElement = NoNode \/ d[targetElement].tagName # TagSELECT THEN <<>>
    ELSE LET xpath == getXPath(d, targetElement)
         IN  IF xpath.throws THEN <<>>
             ELSE <<CustomMsg("CUSTOM_SELECT_EVENT",
                        [xpath |-> xpath.value,
                         cssSelector |-> getEnhancedCSSSelector(d, targetElement),
                         elementTag |-> d[targetElement].tagName,
                         selectedValue |-> SelectedValue,
                         selectedText |-> SelectedText])>>

CAPTURED_KEYS ==
    {<<"E","n","t","e","r">>,
     <<"T","a","b">>,
     <<"E","s","c","a","p","e">>,
     <<"A","r","r","o","w","U","p">>,
     <<"A","r","r","o","w","D","o","w","n">>,
     <<"A","r","r","o","w","L","e","f","t">>,
     <<"A","r","r","o","w","R","i","g","h","t">>,
     <<"H","o","m","e">>,
     <<"E","n","d">>,
     <<"P","a","g","e","U","p">>,
     <<"P","a","g","e","D","o","w","n">>,
     <<"B","a","c","k","s","p","a","c","e">>,
     <<"D","e","l","e","t","e">>}

\* the key handleKeydown logs, "" for none
KeyToLog(key, ctrlKey, metaKey) ==
    IF key \in CAPTURED_KEYS THEN key
    ELSE IF (ctrlKey \/ metaKey) /\ Len(key) = 1 /\ (IsLetter(key[1]) \/ IsDigit(key[1]))
    THEN <<"C","m","d","O","r","C","t","r","l","+">> \o ToUpperCase(key)
    ELSE <<>>

handleKeydownThrows(d, targetElement, key, ctrlKey, metaKey) ==
    /\ isRecordingActive
    /\ KeyToLog(key, ctrlKey, metaKey) # <<>>
    /\ targetElement # NoNode
    /\ Escapes(getXPath(d, targetElement).throws, TRUE)

\* handleKeydown logging every key, as the earlier variant of the script did
handleKeydown_AllKeys(d, targetElement, key, ctrlKey, metaKey) ==
    IF ~isRecordingActive THEN <<>>
    ELSE LET located == targetElement # NoNode /\ ~getXPath(d, targetElement).throws
         IN  <<CustomMsg("CUSTOM_KEY_EVENT",
                    [key |-> key,
                     xpath |-> IF located THEN getXPath(d, targetElement).value ELSE <<>>,
                     cssSelector |-> IF located THEN getEnhancedCSSSelector(d, targetElement)
                                     ELSE <<>>,
                     elementTag |-> IF located THEN d[targetElement].tagName
                                    ELSE <<"d","o","c","u","m","e","n","t">>])>>

\* handleKeydown; a locator that throws leaves xpath and cssSelector empty
\* and elementTag "document"
handleKeydown(d, targetElement, key, ctrlKey, metaKey) ==
    IF ~isRecordingActive THEN <<>>
    ELSE LET keyToLog == KeyToLog(key, ctrlKey, metaKey)
             located == targetElement # NoNode /\ ~getXPath(d, targetElement).throws
         IN  IF keyToLog = <<>> THEN <<>>
             ELSE <<CustomMsg("CUSTOM_KEY_EVENT",
                        [key |-> keyToLog,
                         xpath |-> IF located THEN getXPath(d, targetElement).value ELSE <<>>,
                         cssSelector |-> IF located THEN getEnhancedCSSSelector(d, targetElement)
                                         ELSE <<>>,
                         elementTag |-> IF located THEN d[targetElement].tagName
                                        ELSE <<"d","o","c","u","m","e","n","t">>])>>

\* The page of the capture runs: body holds a password field, a select and a
\* custom element whose open shadow root holds a button, a span with an id
\* and a select.
PasswordId == BodyId + 1
SelectId == BodyId + 2
PanelId == BodyId + 3
PanelRootId == BodyId + 4
ButtonId == BodyId + 5
TipId == BodyId + 6
ShadowSelectId == BodyId + 7
CapturePage ==
    LET d1 == AppendChild(BaseDocument(<<>>), BodyId, TagINPUT,
                  <<[name |-> <<"t","y","p","e">>, value |-> <<"p","a","s","s","w","o","r","d">>]>>)
        d2 == AppendChild(d1, BodyId, TagSELECT, <<>>)
        d3 == AppendChild(d2, BodyId, TagXPANEL, <<>>)
        d4 == AttachShadowTo(d3, PanelId)
        d5 == AppendChild(d4, PanelRootId, TagBUTTON, <<>>)
        d6 == AppendChild(d5, PanelRootId, TagSPAN, IdAttribute(<<"t","i","p">>))
    IN  AppendChild(d6, PanelRootId, TagSELECT, <<>>)

\* targetElement.value
ElementValue(d, n, typedValue) ==
    IF n = PasswordId THEN typedValue
    ELSE IF d[n].tagName = TagSELECT THEN SelectedValue
    ELSE <<>>

\* One dispatched event runs its handler once per listening root; the second
\* run receives the same event apart from the secret input.
Deliver(out, out2, n) ==
    /\ Len(sent) + n * Len(out) <= MaxSent
    /\ Len(sent2) + n * Len(out2) <= MaxSent
    /\ sent' = sent \o Repeat(out, n)
    /\ sent2' = sent2 \o Repeat(out2, n)

\* a click event dispatched at target
Click(target) ==
    /\ target \in Elements(dom)
    /\ Deliver(handleCustomClick(dom, target), handleCustomClick(dom, target),
               Invocations(dom, target, TRUE))
    /\ lastOp' = Op("click", [target |-> target,
                              ran |-> Invocations(dom, target, TRUE),
                              uncaught |-> /\ Invocations(dom, target, TRUE) > 0
                                           /\ handleCustomClickThrows(dom, target)])
    /\ UNCHANGED <<lifeVars, scrollVars, domVars, typed, typed2>>

\* the user types a character into the password field: its value grows and
\* an input event is dispatched at it (ch2 is the character of the second run)
InputPassword(ch, ch2) ==
    /\ Len(typed) < MaxTyped
    /\ typed' = Append(typed, ch)
    /\ typed2' = Append(typed2, ch2)
    /\ Deliver(handleInput(dom, PasswordId, typed'), handleInput(dom, PasswordId, typed2'),
               Invocations(dom, PasswordId, TRUE))
    /\ lastOp' = Op("input", [target |-> PasswordId,
                              ran |-> Invocations(dom, PasswordId, TRUE),
                              uncaught |-> /\ Invocations(dom, PasswordId, TRUE) > 0
                                           /\ handleInputThrows(dom, PasswordId)])
    /\ UNCHANGED <<lifeVars, scrollVars, domVars>>

\* an input event dispatched at another element
InputEvent(target) ==
    /\ target \in Elements(dom) \ {PasswordId}
    /\ Deliver(handleInput(dom, target, ElementValue(dom, target, typed)),
               handleInput(dom, target, ElementValue(dom, target, typed2)),
               Invocations(dom, target, TRUE))
    /\ lastOp' = Op("input", [target |-> target,
                              ran |-> Invocations(dom, target, TRUE),
                              uncaught |-> /\ Invocations(dom, target, TRUE) > 0
                                           /\ handleInputThrows(dom, target)])
    /\ UNCHANGED <<lifeVars, scrollVars, domVars, typed, typed2>>

\* a change event dispatched at target; change events are not composed
Change(target) ==
    /\ target \in Elements(dom)
    /\ Deliver(handleSelectChange(dom, target), handleSelectChange(dom, target),
               Invocations(dom, target, FALSE))
    /\ lastOp' = Op("change", [target |-> target,
                               ran |-> Invocations(dom, target, FALSE),
                               uncaught |-> /\ Invocations(dom, target, FALSE) > 0
                                            /\ handleSelectChangeThrows(dom, target)])
    /\ UNCHANGED <<lifeVars, scrollVars, domVars, typed, typed2>>

\* a keydown event dispatched at target (key2 is the key of the second run)
Keydown(target, key, key2, ctrlKey, metaKey) ==
    /\ target \in Elements(dom)
    /\ Deliver(handleKeydown(dom, target, key, ctrlKey, metaKey),
               handleKeydown(dom, target, key2, ctrlKey, metaKey),
               Invocations(dom, target, TRUE))
    /\ lastOp' = Op("keydown", [target |-> target, key |-> key,
                                ctrlKey |-> ctrlKey, metaKey |-> metaKey,
                                ran |-> Invocations(dom, target, TRUE),
                                uncaught |-> /\ Invocations(dom, target, TRUE) > 0
                                             /\ handleKeydownThrows(dom, target, key,
                                                                    ctrlKey, metaKey)])
    /\ UNCHANGED <<lifeVars, scrollVars, domVars, typed, typed2>>

\* ------------------------------------------------------------------ shadow DOM
\* A page that holds, below body, a custom element with an open shadow root
\* and a plain div.
ShadowPage ==
    LET d1 == AppendChild(BaseDocument(<<>>), BodyId, TagXPANEL, <<>>)
        d2 == AttachShadowTo(d1, Len(d1))
    IN  AppendChild(d2, BodyId, TagDIV, <<>>)

\* what one insertion by the page adds: a plain element, a custom element
\* with its shadow root attached, or a div wrapping such a custom element
Shapes == {"element", "host", "wrapped host"}
ShapeSize(shape) == IF shape = "element" THEN 1 ELSE IF shape = "host" THEN 2 ELSE 3
Inserted(d, parent, shape) ==
    IF shape = "element" THEN AppendChild(d, parent, TagDIV, <<>>)
    ELSE IF shape = "host"
    THEN AttachShadowTo(AppendChild(d, parent, TagXPANEL, <<>>), Len(d) + 1)
    ELSE LET wrapped == AppendChild(AppendChild(d, parent, TagDIV, <<>>),
                                    Len(d) + 1, TagXPANEL, <<>>)
         IN  AttachShadowTo(wrapped, Len(d) + 2)

\* The callback of observeShadowDOM for one added node: the roots that get
\* the handlers.
ObserverCallback(d, node) ==
    IF d[node].kind = "element" /\ d[node].shadowRoot # NoNode
    THEN AttachListenersToNode(d, d[node].shadowRoot)
    ELSE {}

\* observer.observe(document, {childList, subtree}): a child list change is
\* reported when an observer exists and the parent lies in the document's
\* own tree; the subtree option does not reach into shadow trees
Observed(d, parent) == observing /\ RootOf(d, parent) = DocumentId

\* The page inserts one node below parent (the node was built, with what it
\* contains, before it was inserted); the mutation observer's callback runs
\* when the page's script has returned.
PageAppend(parent, shape) ==
    /\ parent \in (Elements(dom) \cup ShadowRoots(dom)) \ {HtmlId, HeadId}
    /\ Len(dom) + ShapeSize(shape) <= Len(ShadowPage) + MaxNodes
    /\ dom' = Inserted(dom, parent, shape)
    /\ listeners' = IF Observed(dom, parent)
                    THEN listeners \cup ObserverCallback(dom', Len(dom) + 1)
                    ELSE listeners
    /\ computed' = NoLocator
    /\ lastOp' = Op("append", [parent |-> parent, shape |-> shape])
    /\ UNCHANGED <<stopRecording, isRecordingActive, engines, emitBound, observing>>
    /\ UNCHANGED <<responsePending, scrollVars, sent, runVars>>

\* The page attaches an open shadow root to an element already in the page;
\* attachShadow changes no child list, so no mutation is reported.
PageAttachShadow(hostNode) ==
    /\ hostNode \in Elements(dom)
    /\ hostNode > BodyId
    /\ dom[hostNode].shadowRoot = NoNode
    /\ Len(dom) < Len(ShadowPage) + MaxNodes
    /\ dom' = AttachShadowTo(dom, hostNode)
    /\ computed' = NoLocator
    /\ lastOp' = Op("attachShadow", [host |-> hostNode])
    /\ UNCHANGED <<lifeVars, scrollVars, sent, runVars>>

InitLife ==
    /\ stopRecording = FALSE
    /\ isRecordingActive = TRUE
    /\ scrollTimeout = None
    /\ lastScrollY = None
    /\ lastDirection = NULL
    /\ timers = {}
    /\ engines = 0
    /\ emitBound = FALSE
    /\ responsePending = TRUE
    /\ sent = <<>>
    /\ listeners = {}
    /\ observing = FALSE
    /\ typed = <<>>
    /\ sent2 = <<>>
    /\ typed2 = <<>>
    /\ lastOp = [op |-> "main", arg |-> NoArg,
                 pre |-> [active |-> TRUE, handle |-> FALSE, dir |-> NULL, timer |-> FALSE]]

Init ==
    /\ InitLife
    /\ dom = BaseDocument(<<>>)
    /\ computed = NoLocator

Next ==
    \/ \E b \in BOOLEAN : SetRecordingStatus(b)
    \/ \E b \in BOOLEAN : StatusResponse(b)
    \/ BeforeUnload
    \/ \E e \in EngineEvents : EngineEmit(e)
    \/ \E t \in timers : TimerFire(t)

Spec == Init /\ [][Next]_vars

\* The content script with startRecorder and stopRecorder also callable directly.
NextCalls ==
    \/ Next
    \/ StartRecorder
    \/ StopRecorder

SpecCalls == Init /\ [][NextCalls]_vars

\* The content script with an engine that may emit while it is being stopped.
NextStop ==
    \/ Next
    \/ \E e \in EngineEvents : StopRecorderEmitting(e)

SpecStop == Init /\ [][NextStop]_vars

\* A session that stays Recording, with room in the log for every buffered
\* scroll event, and timers that fire when they stay pending.
NextBurst ==
    \/ StatusResponse(TRUE)
    \/ SetRecordingStatus(TRUE)
    \/ \E e \in EngineEvents : Len(sent) + Cardinality(timers) < MaxSent /\ EngineEmit(e)
    \/ \E t \in timers : TimerFire(t)

SpecBurst ==
    /\ Init
    /\ [][NextBurst]_vars
    /\ WF_vars(\E t \in timers : TimerFire(t))

\* The locator engine over the pages a script can build: the recorder idle.
InitDom ==
    /\ InitLife
    /\ \E id \in Ids : dom = BaseDocument(IdAttribute(id))
    /\ computed = NoLocator

NextDom ==
    \/ \E parent \in 1..Len(dom), tag \in Tags, id \in Ids : AppendElement(parent, tag, id)
    \/ \E hostNode \in 1..Len(dom) : AttachShadow(hostNode)
    \/ \E element \in 1..Len(dom) : Locate(element)

SpecDom == InitDom /\ [][NextDom]_vars

\* The locator engine over the attributes a script can set on one element.
AttrNames ==
    {<<"i","d">>, <<"c","l","a","s","s">>, <<"d","a","t","a","-","t","e","s","t","i","d">>, <<"o","n","c","l","i","c","k">>, <<"a","r","i","a","-","l","a","b","e","l">>}
AttrValues ==
    {<<>>, <<"a","b">>, <<"a","\"","b">>, <<"a"," ","b">>, <<"w",":","1">>, <<"1","a">>}
SubjectId == BodyId + 1

InitSelector ==
    /\ InitLife
    /\ dom = AppendChild(BaseDocument(<<>>), BodyId, TagDIV, <<>>)
    /\ computed = NoLocator

NextSelector ==
    \/ \E name \in AttrNames, value \in AttrValues : SetAttribute(SubjectId, name, value)
    \/ Locate(SubjectId)

SpecSelector == InitSelector /\ [][NextSelector]_vars

\* The capture handlers on a loaded page.
InitCapture ==
    /\ InitLife
    /\ dom = CapturePage
    /\ computed = NoLocator

Lifecycle ==
    \/ \E b \in BOOLEAN : SetRecordingStatus(b)
    \/ \E b \in BOOLEAN : StatusResponse(b)
    \/ BeforeUnload

NextCapture ==
    \/ Lifecycle
    \/ \E target \in Elements(dom) : Click(target)
    \/ InputPassword(<<"x">>, <<"x">>)
    \/ \E target \in {SelectId, PanelId, ButtonId} : InputEvent(target)
    \/ \E target \in {SelectId, PasswordId, ShadowSelectId} : Change(target)
    \/ \E target \in {PasswordId, ButtonId}, key \in {<<"E","n","t","e","r">>, <<"g">>},
          ctrlKey \in BOOLEAN : Keydown(target, key, key, ctrlKey, FALSE)

SpecCapture == InitCapture /\ [][NextCapture]_vars

\* The capture handlers and the engine's emit callback together.
NextHandlers ==
    \/ Lifecycle
    \/ \E e \in {ev \in EngineEvents : ev.kind = "scroll" => ev.x = 0} : EngineEmit(e)
    \/ \E t \in timers : TimerFire(t)
    \/ Click(SelectId)
    \/ InputEvent(SelectId)
    \/ Change(SelectId)
    \/ Keydown(SelectId, <<"E","n","t","e","r">>, <<"E","n","t","e","r">>, FALSE, FALSE)

SpecHandlers == InitCapture /\ [][NextHandlers]_vars

\* Key presses on the page, over the keys a keyboard produces.
OtherKeys ==
    {<<"a">>, <<"g">>, <<"Z">>, <<"1">>, <<"F","5">>, <<"S","h","i","f","t">>, <<";">>, <<" ">>}
Keys == CAPTURED_KEYS \cup OtherKeys

NextKeys ==
    \/ Lifecycle
    \/ \E target \in {BodyId, PasswordId}, key \in Keys, ctrlKey \in BOOLEAN, metaKey \in BOOLEAN :
          Len(sent) < MaxKeyLog /\ Keydown(target, key, key, ctrlKey, metaKey)

SpecKeys == InitCapture /\ [][NextKeys]_vars

\* Two runs of the user acting on the password field, alike except for the
\* password characters typed (unmodified printable keys).
SecretChars == {<<"a">>, <<"7">>}

NextSecret ==
    \/ Lifecycle
    \/ Click(PasswordId)
    \/ Change(PasswordId)
    \/ \E ch \in SecretChars, ch2 \in SecretChars : InputPassword(ch, ch2)
    \/ \E ch \in SecretChars, ch2 \in SecretChars : Keydown(PasswordId, ch, ch2, FALSE, FALSE)
    \/ Keydown(PasswordId, <<"B","a","c","k","s","p","a","c","e">>,
               <<"B","a","c","k","s","p","a","c","e">>, FALSE, FALSE)

SpecSecret == InitCapture /\ [][NextSecret]_vars

\* The recorder on a page that keeps adding shadow roots.
InitShadow ==
    /\ InitLife
    /\ dom = ShadowPage
    /\ computed = NoLocator

NextShadow ==
    \/ Lifecycle
    \/ \E parent \in 1..(Len(ShadowPage) + MaxNodes), shape \in Shapes : PageAppend(parent, shape)
    \/ \E hostNode \in 1..(Len(ShadowPage) + MaxNodes) : PageAttachShadow(hostNode)

SpecShadow == InitShadow /\ [][NextShadow]_vars

\* -------------------------------------------------------------- properties
Recording == stopRecording /\ engines = 1
Stopped == ~stopRecording

\* C1: after a SET_RECORDING_STATUS message with payload b has been
\* handled, the recorder is Recording (stop handle present, one engine
\* recording) if b is true and Stopped (no stop handle) if b is false,
\* in every reachable state including the one right after load; a command
\* equal to the current state changes nothing.
C1_SetStatusDrivesRecorder ==
    lastOp.op = "SET_RECORDING_STATUS" =>
        /\ lastOp.arg.status => Recording
        /\ ~lastOp.arg.status => Stopped
        /\ (lastOp.arg.status <=> lastOp.pre.handle) => stopRecording = lastOp.pre.handle

\* C2: while the active flag is false (from the stopRecorder that cleared
\* it until the next startRecorder) no step sends a message.
C2_NoSendWhileInactive ==
    [][~isRecordingActive => sent' = sent]_vars

\* The steps that call startRecorder, and those that call stopRecorder.
StartCalled ==
    \/ lastOp'.op = "startRecorder"
    \/ lastOp'.op = "statusResponse" /\ lastOp'.arg.status
    \/ lastOp'.op = "SET_RECORDING_STATUS" /\ lastOp'.arg.status /\ ~isRecordingActive
StopCalled ==
    \/ lastOp'.op \in {"stopRecorder", "beforeunload"}
    \/ lastOp'.op = "statusResponse" /\ ~lastOp'.arg.status
    \/ lastOp'.op = "SET_RECORDING_STATUS" /\ ~lastOp'.arg.status /\ isRecordingActive

\* C3: startRecorder with a stop handle present and stopRecorder with none
\* change no state and start or stop no engine; at most one engine instance
\* is recording and the stop handle is present exactly when one is.
C3_StartStopIdempotent ==
    /\ [](engines \in {0, 1} /\ (stopRecording <=> engines = 1))
    /\ [][((StartCalled /\ stopRecording) \/ (StopCalled /\ ~stopRecording))
            => UNCHANGED <<stopRecording, isRecordingActive, engines, emitBound,
                           scrollVars, sent>>]_vars

C3_Witness ==
    /\ lastOp.op = "startRecorder"
    /\ lastOp.pre.handle
    /\ Recording
    /\ sent # <<>>

\* A scroll event e arrives at emit while recording and moves in the tracked
\* direction, which is the direction of the scroll event before it.
SameDirectionScroll(e) ==
    /\ lastOp'.op = "emit"
    /\ lastOp'.arg = e
    /\ isRecordingActive
    /\ lastDirection # NULL
    /\ CurrentDirection(e.y) = lastDirection

\* What a debounce timer does when it fires: it sends the payload it carries.
TimerSendsItsPayload ==
    lastOp'.op = "timer" =>
        \E t \in timers :
            /\ t.id = lastOp'.arg.id
            /\ sent' = Append(sent, RrwebMsg(ScrollPayload(t.x, t.y)))
            /\ timers' = {}

\* The second event of a pair is buffered: nothing is sent on arrival and the
\* one pending timer carries its rounded coordinates.
SecondIsBuffered(e) ==
    /\ sent' = sent
    /\ scrollTimeout' # None
    /\ timers' = {[id |-> scrollTimeout'[1], x |-> MathRound(e.x), y |-> MathRound(e.y)]}

\* C4 as stated: for two scroll events in the same direction with no timer
\* firing between them exactly one RRWEB_EVENT is sent, by the timer, with
\* the second event's rounded coordinates. The first event was sent at once
\* iff no timer is pending when the second arrives.
C4_PairCoalesces ==
    [][/\ \A e \in ScrollEvents :
             SameDirectionScroll(e) => (scrollTimeout # None /\ SecondIsBuffered(e))
       /\ TimerSendsItsPayload]_vars

\* C4 amended: when the first event of the pair is still buffered (it did
\* not itself reverse the direction), the second replaces it behind the timer
\* without a message, and a firing timer sends exactly the payload it carries.
C4_BufferedPairCoalesces ==
    [][/\ \A e \in ScrollEvents :
             (SameDirectionScroll(e) /\ scrollTimeout # None) => SecondIsBuffered(e)
       /\ TimerSendsItsPayload]_vars

C4_Witness ==
    /\ lastOp.op = "emit"
    /\ lastOp.arg.kind = "scroll"
    /\ lastOp.pre.active
    /\ lastOp.pre.timer
    /\ lastOp.pre.dir # NULL
    /\ lastOp.pre.dir = lastDirection
    /\ \E t \in timers : scrollTimeout = Some(t.id) /\ t.y = MathRound(lastOp.arg.y)
    /\ sent = <<>>

\* A scroll event e arrives at emit while recording, reverses the tracked
\* direction, and an earlier scroll event is still buffered behind the timer.
ReversalMidBuffer(e) ==
    /\ lastOp'.op = "emit"
    /\ lastOp'.arg = e
    /\ isRecordingActive
    /\ lastDirection # NULL
    /\ CurrentDirection(e.y) \notin {NULL, lastDirection}
    /\ scrollTimeout # None

\* C5 as stated: the reversal sends at once the buffered (pre-reversal)
\* coordinates, cancels the pending timer and resets direction tracking.
C5_ReversalFlushesBuffered ==
    [][\A e \in ScrollEvents :
          ReversalMidBuffer(e) =>
              /\ \E t \in timers :
                    /\ Some(t.id) = scrollTimeout
                    /\ sent' = Append(sent, RrwebMsg(ScrollPayload(t.x, t.y)))
              /\ timers' = {}
              /\ scrollTimeout' = None
              /\ lastDirection' = NULL]_vars

\* C5 amended: the reversal sends at once the rounded coordinates of the
\* reversing event itself, cancels the pending timer (the buffered event is
\* never sent) and tracks the new direction and position.
C5_ReversalFlushesCurrent ==
    [][\A e \in ScrollEvents :
          ReversalMidBuffer(e) =>
              /\ sent' = Append(sent, RrwebMsg(ScrollPayload(MathRound(e.x), MathRound(e.y))))
              /\ timers' = {}
              /\ scrollTimeout' = None
              /\ lastDirection' = CurrentDirection(e.y)
              /\ lastScrollY' = Some(e.y)]_vars

C5_Witness ==
    /\ lastOp.op = "emit"
    /\ lastOp.arg.kind = "scroll"
    /\ lastOp.pre.active
    /\ lastOp.pre.timer
    /\ lastOp.pre.dir \notin {NULL, lastDirection}
    /\ timers = {}
    /\ sent = <<RrwebMsg(ScrollPayload(MathRound(lastOp.arg.x), MathRound(lastOp.arg.y)))>>

\* The elements below document.body in the light DOM.
RECURSIVE IsBodyDescendant(_, _)
IsBodyDescendant(d, n) ==
    /\ IsElement(d, n)
    /\ ParentElement(d, n) # NoNode
    /\ (ParentElement(d, n) = DocumentBody(d) \/ IsBodyDescendant(d, ParentElement(d, n)))

\* The position of n among the children of its parent node.
ChildIndex(d, n) ==
    CHOOSE i \in 1..Len(d[d[n].parentNode].children) : d[d[n].parentNode].children[i] = n
\* The element siblings before n that share its tag name.
PrecedingSameTag(d, n) ==
    {i \in 1..(ChildIndex(d, n) - 1) :
        LET sib == d[d[n].parentNode].children[i]
        IN  IsElement(d, sib) /\ d[sib].tagName = d[n].tagName}

XPathOfId(id) == <<"i","d","(","\"">> \o id \o <<"\"",")">>

\* C9: for body and every element below it, getXPath returns id("<id>")
\* when the element has a non-empty id, "body" for body without id, and
\* otherwise the parent's XPath followed by /tag[k], k being 1 plus the
\* number of preceding element siblings with the same tag name.
C9_XPathShape ==
    (computed.target # NoNode
        /\ (computed.target = DocumentBody(dom) \/ IsBodyDescendant(dom, computed.target)))
    => LET e == computed.target
       IN  /\ ~computed.xpath.throws
           /\ computed.xpath.value =
                 IF ElementId(dom, e) # <<>> THEN XPathOfId(ElementId(dom, e))
                 ELSE IF e = DocumentBody(dom) THEN <<"b","o","d","y">>
                 ELSE getXPath(dom, ParentElement(dom, e)).value
                        \o <<"/">> \o ToLowerCase(dom[e].tagName) \o <<"[">>
                        \o NumberToString(1 + Cardinality(PrecedingSameTag(dom, e)))
                        \o <<"]">>

\* the third of three id-less sibling divs below an id-less body
C9_Witness ==
    /\ computed.target = BodyId + 3
    /\ computed.xpath = Ok(<<"b","o","d","y","/","d","i","v","[","3","]">>)

\* str contains part as a contiguous substring
Contains(str, part) ==
    \E i \in 0..(Len(str) - Len(part)) : SubSeq(str, i + 1, i + Len(part)) = part

\* A selector read as CSS reads it: a double quote opens a string, a
\* backslash escapes the next character, and the quote that closes the string
\* of an attribute fragment is followed by "]".
RECURSIVE QuotedValuesClosed(_, _, _)
QuotedValuesClosed(sel, i, inString) ==
    IF i > Len(sel) THEN ~inString
    ELSE IF sel[i] = "\\" THEN QuotedValuesClosed(sel, i + 2, inString)
    ELSE IF sel[i] = "\""
         THEN IF inString
              THEN i < Len(sel) /\ sel[i + 1] = "]" /\ QuotedValuesClosed(sel, i + 2, FALSE)
              ELSE QuotedValuesClosed(sel, i + 1, TRUE)
    ELSE QuotedValuesClosed(sel, i + 1, inString)

\* The allow-listed attributes of n whose value contains a double quote.
QuotedAttributes(d, n) ==
    {i \in 1..Len(d[n].attributes) :
        /\ d[n].attributes[i].name \in SAFE_ATTRIBUTES
        /\ "\"" \in Range(d[n].attributes[i].value)}

\* C8: for an element with an allow-listed attribute whose value contains a
\* double quote the selector has a substring-match fragment (*=) for it, no
\* exact-match fragment, and no unescaped double quote inside a quoted value.
C8_QuoteInValue ==
    (computed.target # NoNode /\ QuotedAttributes(dom, computed.target) # {})
    => /\ \A i \in QuotedAttributes(dom, computed.target) :
             LET name == dom[computed.target].attributes[i].name
             IN  /\ Contains(computed.cssSelector, <<"[">> \o name \o <<"*", "=", "\"">>)
                 /\ ~Contains(computed.cssSelector, <<"[">> \o name \o <<"=", "\"">>)
       /\ QuotedValuesClosed(computed.cssSelector, 1, FALSE)

\* the part of C8 the code does satisfy: the fragment is a substring match
C8_SubstringMatchUsed ==
    (computed.target # NoNode /\ QuotedAttributes(dom, computed.target) # {})
    => \A i \in QuotedAttributes(dom, computed.target) :
          LET name == dom[computed.target].attributes[i].name
          IN  /\ Contains(computed.cssSelector, <<"[">> \o name \o <<"*", "=", "\"">>)
              /\ ~Contains(computed.cssSelector, <<"[">> \o name \o <<"=", "\"">>)

\* every selector built from values without a double quote reads cleanly
SelectorReadsCleanly ==
    (computed.target # NoNode
        /\ \A i \in 1..Len(dom[computed.target].attributes) :
              "\"" \notin Range(dom[computed.target].attributes[i].value))
    => QuotedValuesClosed(computed.cssSelector, 1, FALSE)

\* the messages a step appends to the log
NewMessages == SubSeq(sent', Len(sent) + 1, Len(sent'))

\* the handlers of the document are attached and the active flag is set
Capturing == isRecordingActive /\ DocumentId \in listeners

\* C6: whatever the user does on the password field, no CUSTOM_* message
\* depends on the characters typed: every CUSTOM_INPUT_EVENT of the field
\* carries the value "********", and two runs that differ only in the
\* password characters typed send the same sequence of messages.
C6_PasswordNotDisclosed ==
    /\ sent = sent2
    /\ \A i \in 1..Len(sent) :
          (sent[i].type = "CUSTOM_INPUT_EVENT"
             /\ sent[i].payload.xpath = getXPath(dom, PasswordId).value)
          => sent[i].payload.value = <<"*","*","*","*","*","*","*","*">>

\* the two runs typed different passwords and both logged the input and a
\* key press
C6_Witness ==
    /\ Len(typed) = 2
    /\ typed[1] # typed2[1]
    /\ typed[2] # typed2[2]
    /\ \E i \in 1..Len(sent) : sent[i].type = "CUSTOM_INPUT_EVENT"
    /\ \E i \in 1..Len(sent) : sent[i].type = "CUSTOM_KEY_EVENT"

ControlKeys ==
    {<<"E","n","t","e","r">>,
     <<"T","a","b">>,
     <<"E","s","c","a","p","e">>,
     <<"A","r","r","o","w","U","p">>,
     <<"A","r","r","o","w","D","o","w","n">>,
     <<"A","r","r","o","w","L","e","f","t">>,
     <<"A","r","r","o","w","R","i","g","h","t">>,
     <<"H","o","m","e">>,
     <<"E","n","d">>,
     <<"P","a","g","e","U","p">>,
     <<"P","a","g","e","D","o","w","n">>,
     <<"B","a","c","k","s","p","a","c","e">>,
     <<"D","e","l","e","t","e">>}
IsAlphanumeric(key) == Len(key) = 1 /\ (IsLetter(key[1]) \/ IsDigit(key[1]))

\* C7: while recording, a key press sends a CUSTOM_KEY_EVENT exactly when
\* the key is one of the thirteen control keys, logged verbatim, or when
\* Ctrl or Meta is held with a single alphanumeric character, logged as
\* CmdOrCtrl+<uppercase character>; every other key sends nothing.
C7_KeydownLogsExactly ==
    [][(lastOp'.op = "keydown" /\ Capturing)
       => LET press == lastOp'.arg
          IN  IF press.key \in ControlKeys
              THEN /\ Len(NewMessages) = 1
                   /\ NewMessages[1].type = "CUSTOM_KEY_EVENT"
                   /\ NewMessages[1].payload.key = press.key
              ELSE IF (press.ctrlKey \/ press.metaKey) /\ IsAlphanumeric(press.key)
              THEN /\ Len(NewMessages) = 1
                   /\ NewMessages[1].type = "CUSTOM_KEY_EVENT"
                   /\ NewMessages[1].payload.key
                        = <<"C","m","d","O","r","C","t","r","l","+">> \o ToUpperCase(press.key)
              ELSE NewMessages = <<>>]_vars

\* Ctrl+a was pressed while recording and logged as CmdOrCtrl+A
C7_Witness ==
    /\ lastOp.op = "keydown"
    /\ lastOp.pre.active
    /\ lastOp.arg.key = <<"a">>
    /\ lastOp.arg.ctrlKey
    /\ ~lastOp.arg.metaKey
    /\ Len(sent) = 1
    /\ sent[1].type = "CUSTOM_KEY_EVENT"
    /\ sent[1].payload.key = <<"C","m","d","O","r","C","t","r","l","+","A">>

\* C10: while recording, a click on any element reachable from the document
\* or from an attached shadow root is located by a non-empty XPath and a
\* non-empty selector and sends a CUSTOM_CLICK_EVENT.
C10_ClickNeverDropped ==
    [][(lastOp'.op = "click" /\ Recording /\ isRecordingActive
          /\ Invocations(dom, lastOp'.arg.target, TRUE) > 0)
       => /\ Len(NewMessages) > 0
          /\ \A i \in 1..Len(NewMessages) :
                /\ NewMessages[i].type = "CUSTOM_CLICK_EVENT"
                /\ NewMessages[i].payload.xpath # <<>>
                /\ NewMessages[i].payload.cssSelector # <<>>]_vars

\* C11: once startRecorder has run, every shadow root of the page holds the
\* capture handlers when the observer has handled the change that brought
\* it in, whether its host was the inserted node, lay deeper in the inserted
\* subtree, was inserted inside a shadow root, or was already in the page.
C11_ShadowRootsInstrumented ==
    observing => ShadowRoots(dom) \subseteq listeners

\* C12: from the step that invokes stopRecorder on a Recording session
\* until the next startRecorder, nothing is forwarded as RRWEB_EVENT, an
\* event emitted while the stop handle executes included.
C12_NothingForwardedAfterStop ==
    [][((StopCalled /\ stopRecording) \/ (~stopRecording /\ emitBound))
       => sent' = sent]_vars

\* C13: with the active flag false, an invocation of a capture handler or
\* of the emit callback sends nothing and leaves the stop handle, the
\* active flag, lastScrollY, lastDirection and the pending timer as they are.
C13_InactiveHandlersNoOp ==
    [][(~isRecordingActive
          /\ lastOp'.op \in {"click", "input", "change", "keydown", "emit"})
       => /\ sent' = sent
          /\ UNCHANGED <<stopRecording, isRecordingActive, lastScrollY, lastDirection,
                         scrollTimeout, timers>>]_vars

\* a click on the select element reached the document's handler after a
\* stop, with a scroll still buffered
C13_Witness ==
    /\ lastOp.op = "click"
    /\ lastOp.arg.target = SelectId
    /\ ~lastOp.pre.active
    /\ DocumentId \in listeners
    /\ scrollTimeout # None
    /\ lastScrollY # None

\* C14: the scroll buffer does not outlive a session: once stopRecorder has
\* cleared the active flag, and until the next start, no debounce timer is
\* pending and lastScrollY and lastDirection are null.
C14_ScrollBufferEndsWithSession ==
    ~isRecordingActive =>
        /\ timers = {}
        /\ scrollTimeout = None
        /\ lastScrollY = None
        /\ lastDirection = NULL

\* C15: at most one debounce timer is pending and it is the one the module
\* remembers; a reversal leaves none pending; the timer that fires is the
\* remembered one, so a canceled or superseded timer never sends.
C15_OnePendingTimer ==
    /\ [](/\ Cardinality(timers) <= 1
          /\ \A t \in timers : scrollTimeout = Some(t.id))
    /\ [][\A e \in ScrollEvents : ReversalMidBuffer(e) => timers' = {}]_vars
    /\ [][lastOp'.op = "timer"
            => /\ scrollTimeout = Some(lastOp'.arg.id)
               /\ Len(sent') = Len(sent) + 1]_vars

\* a scroll event arrived while the timer of the first scroll event was
\* pending and took its place
C15_Witness ==
    /\ lastOp.op = "emit"
    /\ lastOp.arg.kind = "scroll"
    /\ lastOp.pre.active
    /\ lastOp.pre.timer
    /\ lastOp.pre.dir = NULL
    /\ lastDirection # NULL
    /\ Cardinality(timers) = 1
    /\ \E t \in timers : scrollTimeout = Some(t.id) /\ t.y = MathRound(lastOp.arg.y)

\* A capture handler ran on this step, with the active flag set, for a
\* target whose locator computation throws.
LocatorThrows ==
    /\ lastOp'.op \in {"click", "input", "change", "keydown"}
    /\ isRecordingActive
    /\ lastOp'.arg.ran > 0
    /\ getXPath(dom, lastOp'.arg.target).throws

\* C16 as stated: in each of the four handlers a throwing locator
\* computation is not propagated to the page and no message is sent.
C16_ThrowDropsEvent ==
    [][LocatorThrows => (~lastOp'.arg.uncaught /\ sent' = sent)]_vars

\* the CUSTOM_KEY_EVENT that handleKeydown sends when its locators throw
DegradedKeyEvent(key) ==
    CustomMsg("CUSTOM_KEY_EVENT",
        [key |-> key, xpath |-> <<>>, cssSelector |-> <<>>,
         elementTag |-> <<"d","o","c","u","m","e","n","t">>])

\* C16 amended: the exception never reaches the page; handleCustomClick,
\* handleInput and handleSelectChange send nothing, while handleKeydown
\* still sends its event for a logged key, with empty locators and the
\* element tag "document".
C16_ThrowSwallowed ==
    [][LocatorThrows
       => /\ ~lastOp'.arg.uncaught
          /\ IF lastOp'.op = "keydown"
             THEN LET keyToLog == KeyToLog(lastOp'.arg.key, lastOp'.arg.ctrlKey,
                                           lastOp'.arg.metaKey)
                  IN  IF keyToLog = <<>> THEN sent' = sent
                      ELSE NewMessages = Repeat(<<DegradedKeyEvent(keyToLog)>>,
                                                lastOp'.arg.ran)
             ELSE sent' = sent]_vars

\* Enter was pressed on the button inside the shadow root while recording
\* and logged without locators
C16_Witness ==
    /\ lastOp.op = "keydown"
    /\ lastOp.pre.active
    /\ lastOp.arg.target = ButtonId
    /\ lastOp.arg.ran > 0
    /\ ~lastOp.arg.uncaught
    /\ Len(sent) > 0
    /\ sent[Len(sent)] = DegradedKeyEvent(<<"E","n","t","e","r">>)

\* C17: in every reachable state, the initial one included, the active
\* flag is true exactly when the stop handle is defined.
C17_ActiveIffHandle ==
    isRecordingActive <=> stopRecording

\* C18: while recording, one click event dispatched in the page sends at
\* most one CUSTOM_CLICK_EVENT, wherever its target lies and however often
\* the recorder has been started and stopped.
C18_OneMessagePerClick ==
    [][(lastOp'.op = "click" /\ isRecordingActive)
       => Len(NewMessages) <= 1]_vars

\* every timer the scroll branch can arm
PossibleTimers ==
    [id : 1..2, x : {MathRound(x) : x \in RawXs}, y : {MathRound(y) : y \in RawYs}]

\* C19: in a session that stays Recording, with timers that fire, the last
\* scroll event of a burst is not lost: a scroll event is either sent at
\* once or carried by the one pending timer; a pending timer goes away only
\* by firing or by a later scroll event; when it fires it sends what it
\* carries, the rounded position of the last scroll event; and every
\* pending timer eventually fires or is superseded.
C19_LastScrollDelivered ==
    /\ [][\A e \in ScrollEvents :
             (lastOp'.op = "emit" /\ lastOp'.arg = e /\ isRecordingActive)
             => LET payload == ScrollPayload(MathRound(e.x), MathRound(e.y))
                IN  \/ /\ sent' = Append(sent, RrwebMsg(payload))
                       /\ timers' = {}
                    \/ /\ sent' = sent
                       /\ scrollTimeout' # None
                       /\ timers' = {[id |-> scrollTimeout'[1],
                                      x |-> payload.x, y |-> payload.y]}]_vars
    /\ [][\A t \in timers : t \notin timers' => lastOp'.op \in {"timer", "emit"}]_vars
    /\ [][lastOp'.op = "timer"
            => \E t \in timers :
                  /\ t.id = lastOp'.arg.id
                  /\ t.y = MathRound(lastScrollY[1])
                  /\ sent' = Append(sent, RrwebMsg(ScrollPayload(t.x, t.y)))]_vars
    /\ [](timers \subseteq PossibleTimers)
    /\ \A t \in PossibleTimers : (t \in timers) ~> (t \notin timers)

\* the timer fired after a burst of at least two scroll events and sent the
\* rounded position of the last of them
C19_Witness ==
    /\ lastOp.op = "timer"
    /\ lastOp.pre.active
    /\ lastOp.pre.dir # NULL
    /\ timers = {}
    /\ lastScrollY = Some(MaxY)
    /\ sent = <<RrwebMsg(ScrollPayload(0, MathRound(MaxY)))>>

\* every non-empty id of the page belongs to one element only
UniqueIds(d) ==
    \A a \in Elements(d), b \in Elements(d) :
        (a # b /\ ElementId(d, a) # <<>>) => ElementId(d, a) # ElementId(d, b)

====
